---------------------------- MODULE Spec2Model ----------------------------
(* Model of the document-submission pipeline of the sbis repository:      *)
(*   src/src/uiServer.ts   the HTTP adapter: /api/auth, /api/upload,      *)
(*                         /api/upload/batch, performUpload and helpers   *)
(*   src/unnamed/part_000  SabyClient (authenticate, uploadDraftDocument) *)
(*   src/dist/cli.js       the command-line entry point and its --dir loop *)
(*                                                                         *)
(* Text is modelled as a sequence of code points (integers); a file name   *)
(* as received from the multipart decoder is a sequence of latin1 bytes.   *)
(* JavaScript's undefined and the empty string are both falsy and the code *)
(* only ever tests these values for truthiness, so both are the empty      *)
(* sequence here.  Russian message texts are transliterated.               *)
EXTENDS Integers, Sequences, FiniteSets, TLC

VARIABLES
    mode,        \* which entry point this run exercises
    req,         \* the request (HTTP body and files, or CLI arguments)
    pc,          \* position of the handler / main loop
    idx,         \* index of the file the batch loop is at
    callParams,      \* the parameters of the current performUpload call
    attempt,     \* state of the current performUpload attempt
    attemptLog,  \* the states the current attempt went through
    built,       \* the request body performUpload built for the current attempt
    outcome,     \* what the last performUpload call returned or threw
    results,     \* the batch's results array
    remoteCalls, \* every remote request issued so far, in order
    responses,   \* every remote response (or transport failure) received, in order
    httpRes,     \* the HTTP response the handler sent (status and JSON body)
    token,       \* SabyClient.token
    callers,     \* per caller of SabyClient: position, call in progress, last outcome
    calls        \* number of SabyClient calls started so far

vars == <<mode, req, pc, idx, callParams, attempt, attemptLog, built, outcome, results,
          remoteCalls, responses, httpRes, token, callers, calls>>

clientVars == <<token, callers, calls>>

--------------------------------------------------------------------------
(* Bounds of the model.                                                    *)

MaxFiles == 3
MaxInnLen == 20
MaxCalls == 3
MaxDay == 32
MaxMonth == 13

--------------------------------------------------------------------------
(* Text helpers.                                                           *)

Undefined == <<>>

\* A marker for a property that is not set on an object (never a valid text).
Absent == <<-1>>

Truthy(s) == s # Undefined /\ s # Absent

IsDigit(c) == c >= 48 /\ c <= 57

\* \s of a JavaScript regular expression, and the characters trim() strips.
IsSpace(c) == c \in {9, 10, 11, 12, 13, 32, 160, 5760, 8232, 8233, 8239, 8287, 12288, 65279}
                  \/ (c >= 8192 /\ c <= 8202)

RECURSIVE StripSpaces(_)
StripSpaces(s) ==
    IF s = <<>> THEN <<>>
    ELSE IF IsSpace(Head(s)) THEN StripSpaces(Tail(s))
    ELSE <<Head(s)>> \o StripSpaces(Tail(s))

RECURSIVE TrimLeft(_)
TrimLeft(s) == IF s # <<>> /\ IsSpace(Head(s)) THEN TrimLeft(Tail(s)) ELSE s

RECURSIVE TrimRight(_)
TrimRight(s) ==
    IF s # <<>> /\ IsSpace(s[Len(s)]) THEN TrimRight(SubSeq(s, 1, Len(s) - 1)) ELSE s

Trim(s) == TrimRight(TrimLeft(s))

AllDigits(s) == s # <<>> /\ \A i \in 1..Len(s) : IsDigit(s[i])

--------------------------------------------------------------------------
(* decodeFilename: the latin1 bytes of the name re-read as UTF-8.          *)

ReplacementChar == 65533

IsContinuation(b) == b >= 128 /\ b <= 191

\* One- and two-byte UTF-8 sequences are decoded; every byte that does not
\* start or continue a well-formed sequence becomes U+FFFD.  The names of
\* the model hold no lead byte of a three- or four-byte sequence.
RECURSIVE Utf8Decode(_)
Utf8Decode(b) ==
    IF b = <<>> THEN <<>>
    ELSE IF Head(b) < 128 THEN <<Head(b)>> \o Utf8Decode(Tail(b))
    ELSE IF Head(b) >= 194 /\ Head(b) <= 223 /\ Len(b) >= 2 /\ IsContinuation(b[2])
         THEN <<(Head(b) - 192) * 64 + (b[2] - 128)>> \o Utf8Decode(Tail(Tail(b)))
    ELSE <<ReplacementChar>> \o Utf8Decode(Tail(b))

decodeFilename(name) == Utf8Decode(name)

--------------------------------------------------------------------------
(* parseInnKppFromFilename: /INN(\d{12}|\d{10})/i and /KPP(\d{9})/i over   *)
(* the decoded name (INN and KPP stand for the Cyrillic labels).           *)

\* Canonicalize of a case-insensitive regular expression: the upper case of
\* the character (basic Latin and basic Cyrillic).
UpperCase(c) ==
    IF c >= 97 /\ c <= 122 THEN c - 32
    ELSE IF c >= 1072 /\ c <= 1103 THEN c - 32
    ELSE IF c >= 1104 /\ c <= 1119 THEN c - 80
    ELSE c

LabelINN == <<1048, 1053, 1053>>
LabelKPP == <<1050, 1055, 1055>>

LabelAt(s, i, label) ==
    /\ i + Len(label) - 1 <= Len(s)
    /\ \A k \in 1..Len(label) : UpperCase(s[i + k - 1]) = label[k]

DigitsAt(s, i, n) ==
    /\ i + n - 1 <= Len(s)
    /\ \A k \in 0..(n - 1) : IsDigit(s[i + k])

\* The capture group of the leftmost match of label followed by one of the
\* digit counts of `alternatives` (tried in order), or Undefined.
RegexCapture(s, label, alternatives) ==
    LET matchesAt(i) == LabelAt(s, i, label)
                         /\ \E a \in 1..Len(alternatives) :
                                DigitsAt(s, i + Len(label), alternatives[a])
        starts == {i \in 1..Len(s) : matchesAt(i)}
    IN IF starts = {} THEN Undefined
       ELSE LET i == CHOOSE m \in starts : \A o \in starts : m <= o
                a == CHOOSE m \in 1..Len(alternatives) :
                        /\ DigitsAt(s, i + Len(label), alternatives[m])
                        /\ \A o \in 1..(m - 1) :
                               ~DigitsAt(s, i + Len(label), alternatives[o])
            IN SubSeq(s, i + Len(label), i + Len(label) + alternatives[a] - 1)

\* A plausible slip: the tax-id pattern without its label.
parseAnyDigits(name) ==
    LET decoded == decodeFilename(name)
    IN [inn |-> RegexCapture(decoded, <<>>, <<12, 10>>),
        kpp |-> RegexCapture(decoded, LabelKPP, <<9>>)]

parseInnKppFromFilename(name) ==
    LET decoded == decodeFilename(name)
    IN [inn |-> RegexCapture(decoded, LabelINN, <<12, 10>>),
        kpp |-> RegexCapture(decoded, LabelKPP, <<9>>)]

--------------------------------------------------------------------------
(* extractWeekDescription and getIsoWeek.  A Date of this code is always   *)
(* a midnight in UTC, so a time value is modelled by its day number: the   *)
(* number of days since 1970-01-01 (time value = day number * 86400000).   *)

\* Number(str) for a string of decimal digits.
RECURSIVE Number(_)
Number(s) ==
    IF s = <<>> THEN 0
    ELSE 10 * Number(SubSeq(s, 1, Len(s) - 1)) + (s[Len(s)] - 48)

\* The decimal digits of a natural number.
RECURSIVE Decimal(_)
Decimal(n) == IF n < 10 THEN <<48 + n>> ELSE Decimal(n \div 10) \o <<48 + (n % 10)>>

\* String(n), as the template literal of line 90 renders the week.
NumberToString(n) == IF n < 0 THEN <<45>> \o Decimal(0 - n) ELSE Decimal(n)

\* The start of the leftmost match of /(\d{2})-(\d{2})-(\d{4})/ in s, or 0.
DateMatch(s) ==
    LET matchesAt(i) == /\ i + 9 <= Len(s)
                        /\ IsDigit(s[i]) /\ IsDigit(s[i + 1]) /\ s[i + 2] = 45
                        /\ IsDigit(s[i + 3]) /\ IsDigit(s[i + 4]) /\ s[i + 5] = 45
                        /\ \A k \in 6..9 : IsDigit(s[i + k])
        starts == {i \in 1..Len(s) : matchesAt(i)}
    IN IF starts = {} THEN 0
       ELSE CHOOSE m \in starts : \A o \in starts : m <= o

\* A Date object: NaN, or a day number.
InvalidDate == [nan |-> TRUE, day |-> 0]
DateOf(day) == [nan |-> FALSE, day |-> day]

\* TimeClip: a time value beyond 8.64e15 ms (100,000,000 days) is NaN.
MaxTimeDays == 100000000
TimeClip(day) == IF day > MaxTimeDays \/ day < 0 - MaxTimeDays THEN InvalidDate ELSE DateOf(day)

\* ECMAScript DayFromYear, InLeapYear and MakeDay: month is zero-based and
\* may lie outside 0..11, date may lie outside the month; both carry over.
DayFromYear(y) ==
    365 * (y - 1970) + ((y - 1969) \div 4) - ((y - 1901) \div 100) + ((y - 1601) \div 400)

InLeapYear(y) == (y % 4 = 0 /\ y % 100 # 0) \/ y % 400 = 0

DaysBeforeMonth == <<0, 31, 59, 90, 120, 151, 181, 212, 243, 273, 304, 334>>

MakeDay(year, month, date) ==
    LET ym == year + (month \div 12)
        mn == month % 12
    IN DayFromYear(ym) + DaysBeforeMonth[mn + 1]
         + (IF InLeapYear(ym) /\ mn >= 2 THEN 1 ELSE 0) + date - 1

\* Date.UTC(year, month, day) wrapped in new Date: a year 0..99 means
\* 1900 + year.
DateUTC(year, month, day) ==
    LET yr == IF year >= 0 /\ year <= 99 THEN 1900 + year ELSE year
    IN TimeClip(MakeDay(yr, month, day))

\* getUTCDay: 0 is Sunday; 1970-01-01 was a Thursday.
WeekDay(day) == (day + 4) % 7

\* getUTCFullYear: the year whose days hold the day number.
YearFromTime(day) ==
    LET a == day \div 366
        b == day \div 365
        lo == 1970 + (IF a < b THEN a ELSE b) - 1
        hi == 1970 + (IF a < b THEN b ELSE a) + 1
    IN CHOOSE y \in lo..hi : DayFromYear(y) <= day /\ day < DayFromYear(y + 1)

\* getIsoWeek (lines 80-87); setUTCDate(getUTCDate() + n) moves the day
\* number by n.  Math.ceil(x / 7) is -floor(-x / 7).
getIsoWeek(d) ==
    LET dayNum == IF WeekDay(d) = 0 THEN 7 ELSE WeekDay(d)
        target == d + 4 - dayNum
        yearStart == DateUTC(YearFromTime(target), 0, 1).day
        diff == target - yearStart
    IN 0 - ((0 - (diff + 1)) \div 7)

\* The text around the week number: "Ezhenedel'nyj otchet po vyruchke i
\* nacenke (" and " nedelja)" in Cyrillic.
WeekLabelPrefix ==
    <<1045, 1078, 1077, 1085, 1077, 1076, 1077, 1083, 1100, 1085, 1099,
      1081, 32, 1086, 1090, 1095, 1077, 1090, 32, 1087, 1086, 32, 1074,
      1099, 1088, 1091, 1095, 1082, 1077, 32, 1080, 32, 1085, 1072, 1094,
      1077, 1085, 1082, 1077, 32, 40>>

WeekLabelSuffix ==
    <<32, 1085, 1077, 1076, 1077, 1083, 1103, 41>>

extractWeekDescription(name) ==
    LET at == DateMatch(name)
    IN IF at = 0 THEN Undefined
       ELSE LET day == Number(SubSeq(name, at, at + 1))
                month == Number(SubSeq(name, at + 3, at + 4))
                year == Number(SubSeq(name, at + 6, at + 9))
                date == DateUTC(year, month - 1, day)
            IN IF date.nan THEN Undefined
               ELSE WeekLabelPrefix \o NumberToString(getIsoWeek(date.day))
                      \o WeekLabelSuffix

--------------------------------------------------------------------------
(* HttpError and buildParticipant.                                         *)

\* An error object: an HttpError with its statusCode, or any other Error.
HttpError(statusCode, message) ==
    [isHttpError |-> TRUE, statusCode |-> statusCode, message |-> message]

\* An Error that is not an HttpError (a rejected fetch, a failed readFile, ...).
PlainError(message) ==
    [isHttpError |-> FALSE, statusCode |-> 0, message |-> message]

NoError == [isHttpError |-> FALSE, statusCode |-> 0, message |-> ""]

MsgInnRequired == "INN objazatelen dlja formirovanija rekvizitov"
MsgInnDigitsOnly == "INN dolzhen soderzhat' tol'ko cifry"
MsgInnLength == "INN dolzhen soderzhat' 10 ili 12 cifr"
MsgSessionRequired == "sessionId (X-SBISSessionID) objazatelen"
MsgFileRequired == "Fajl objazatelen"
MsgInnsRequired == "clientInn i ourInn objazatel'ny dlja zagruzki"
MsgKppRequired == "Dlja INN s 10 ciframi neobhodimo ukazat' KPP"
MsgInnNotFound == "Ne najden INN v nazvanii fajla"
MsgNoFiles == "Vyberite minimum odin fajl"

ParticipantInput(inn, kpp, lastName, firstName, middleName, snils) ==
    [inn |-> inn, kpp |-> kpp, lastName |-> lastName, firstName |-> firstName,
     middleName |-> middleName, snils |-> snils]

NoInput == ParticipantInput(Undefined, Undefined, Undefined, Undefined, Undefined, Undefined)

NoParticipant ==
    [variant |-> "none", INN |-> Undefined, KPP |-> Absent, lastName |-> Absent,
     firstName |-> Absent, middleName |-> Absent, SNILS |-> Absent]

OptionalTrimmed(v) == IF Truthy(v) THEN Trim(v) ELSE Absent

Throw(error) == [thrown |-> TRUE, error |-> error, value |-> NoParticipant]

Return(value) == [thrown |-> FALSE, error |-> NoError, value |-> value]

\* A plausible slip: the length check is left out, every numeric tax id is
\* taken as an organization's.
buildParticipantAnyLength(params) ==
    IF ~Truthy(params.inn) THEN Throw(HttpError(400, MsgInnRequired))
    ELSE LET normalizedInn == StripSpaces(params.inn)
         IN IF ~AllDigits(normalizedInn) THEN Throw(HttpError(400, MsgInnDigitsOnly))
            ELSE Return([NoParticipant EXCEPT
                           !.variant = "SvUL",
                           !.INN = normalizedInn,
                           !.KPP = OptionalTrimmed(params.kpp)])

\* A plausible slip: the variant is chosen by the presence of a
\* registration code instead of the length.
buildParticipantByKpp(params) ==
    IF ~Truthy(params.inn) THEN Throw(HttpError(400, MsgInnRequired))
    ELSE LET normalizedInn == StripSpaces(params.inn)
         IN IF ~AllDigits(normalizedInn) THEN Throw(HttpError(400, MsgInnDigitsOnly))
            ELSE IF Len(normalizedInn) \notin {10, 12} THEN Throw(HttpError(400, MsgInnLength))
            ELSE IF Truthy(params.kpp)
                 THEN Return([NoParticipant EXCEPT
                                !.variant = "SvUL",
                                !.INN = normalizedInn,
                                !.KPP = OptionalTrimmed(params.kpp)])
            ELSE Return([NoParticipant EXCEPT
                           !.variant = "SvFL",
                           !.INN = normalizedInn,
                           !.lastName = OptionalTrimmed(params.lastName),
                           !.firstName = OptionalTrimmed(params.firstName),
                           !.middleName = OptionalTrimmed(params.middleName),
                           !.SNILS = OptionalTrimmed(params.snils)])

\* What the call returns (the SvUL or SvFL object) or throws.
buildParticipant(params) ==
    IF ~Truthy(params.inn) THEN Throw(HttpError(400, MsgInnRequired))
    ELSE LET normalizedInn == StripSpaces(params.inn)
         IN IF ~AllDigits(normalizedInn) THEN Throw(HttpError(400, MsgInnDigitsOnly))
            ELSE IF Len(normalizedInn) = 10
                 THEN Return([NoParticipant EXCEPT
                                !.variant = "SvUL",
                                !.INN = normalizedInn,
                                !.KPP = OptionalTrimmed(params.kpp)])
            ELSE IF Len(normalizedInn) = 12
                 THEN Return([NoParticipant EXCEPT
                                !.variant = "SvFL",
                                !.INN = normalizedInn,
                                !.lastName = OptionalTrimmed(params.lastName),
                                !.firstName = OptionalTrimmed(params.firstName),
                                !.middleName = OptionalTrimmed(params.middleName),
                                !.SNILS = OptionalTrimmed(params.snils)])
            ELSE Throw(HttpError(400, MsgInnLength))

--------------------------------------------------------------------------
(* Remote responses.  A body is a sample text, described by what           *)
(* JSON.parse makes of it and by the properties the code reads.  A         *)
(* property that is missing, null or the empty string is "" (the code      *)
(* reads these through || only), except result and answer, which the       *)
(* code reads through ?? and typeof and which carry a type tag.            *)

Body(text) ==
    [text |-> text,          \* the raw text
     valid |-> TRUE,         \* JSON.parse succeeds
     isNull |-> FALSE,       \* the text is the JSON null
     result |-> "absent",    \* typeof json.result: absent, string, object
     resultStr |-> "",
     answer |-> "absent",    \* typeof json.answer
     answerStr |-> "",
     docId |-> "",           \* json.result.Dokument.Identifikator
     flatId |-> "",          \* json.result.Identifikator
     errorMessage |-> "",    \* json.error.message
     hasError |-> FALSE,     \* json.error is an object
     orgs |-> "",            \* json.result.NashaOrganizacija
     token |-> ""]           \* json.token

BodyGarbage == [Body("<html>502</html>") EXCEPT !.valid = FALSE]
BodyNull == [Body("null") EXCEPT !.isNull = TRUE]
BodyEmptyObject == Body("{}")
BodyDocId == [Body("{result:{Dokument:{Identifikator:doc-1}}}") EXCEPT
                !.result = "object", !.docId = "doc-1"]
BodyFlatId == [Body("{result:{Identifikator:doc-2}}") EXCEPT
                !.result = "object", !.flatId = "doc-2"]
BodyError == [Body("{error:{message:denied}}") EXCEPT
                !.hasError = TRUE, !.errorMessage = "denied"]

StatusText(status) ==
    CASE status = 200 -> "OK"
      [] status = 401 -> "Unauthorized"
      [] status = 500 -> "Internal Server Error"
      [] status = 502 -> "Bad Gateway"
      [] OTHER -> ""

\* response.ok
Ok(status) == status >= 200 /\ status <= 299

\* `to` is set when the response is logged: the kind of request it answers.
Response(status, body) == [failed |-> FALSE, status |-> status, body |-> body, to |-> ""]

\* fetch (or reading the body) rejected: no response.
TransportFailure == [failed |-> TRUE, status |-> 0, body |-> Body(""), to |-> ""]

Answer(response, kind) == [response EXCEPT !.to = kind]

MsgFetchFailed == "FetchError: request failed"

UploadStatuses == {200, 502}
UploadBodies == {BodyGarbage, BodyEmptyObject, BodyDocId, BodyFlatId, BodyError}
UploadResponses ==
    {Response(st, b) : st \in UploadStatuses, b \in UploadBodies} \cup {TransportFailure}

\* The responses a batch run draws from: one per way the response is handled.
BatchResponses ==
    {Response(200, BodyDocId), Response(200, BodyError), Response(200, BodyGarbage),
     Response(500, BodyError), TransportFailure}

AuthBodyResult == [Body("{result:sid-1}") EXCEPT !.result = "string", !.resultStr = "sid-1"]
AuthBodyAnswer == [Body("{answer:sid-2}") EXCEPT !.answer = "string", !.answerStr = "sid-2"]
AuthBodyObject == [Body("{result:{}}") EXCEPT !.result = "object"]
AuthStatuses == {200, 401}
AuthBodies == {AuthBodyResult, AuthBodyAnswer, AuthBodyObject, BodyError, BodyGarbage, BodyNull}
AuthResponses ==
    {Response(st, b) : st \in AuthStatuses, b \in AuthBodies} \cup {TransportFailure}

BodyOrgs == [Body("{result:{NashaOrganizacija:orgs-1}}") EXCEPT
               !.result = "object", !.orgs = "orgs-1"]
OrgResponses ==
    {Response(st, b) : st \in {200, 500},
                       b \in {BodyOrgs, BodyEmptyObject, BodyNull, BodyGarbage, BodyError}}
        \cup {TransportFailure}

Call(kind, session, forFile) == [kind |-> kind, session |-> session, forFile |-> forFile]

--------------------------------------------------------------------------
(* performUpload.                                                          *)

DefaultFileName == <<100, 111, 99, 117, 109, 101, 110, 116, 46, 100, 111, 99, 120>>

File(originalname) == [present |-> TRUE, originalname |-> originalname]
NoFile == [present |-> FALSE, originalname |-> <<>>]

UploadParams(sessionId, client, our, date, note, file) ==
    [sessionId |-> sessionId, client |-> client, our |-> our, date |-> date,
     note |-> note, file |-> file]

NoParams == UploadParams("", NoInput, NoInput, Absent, Absent, NoFile)

NoBody ==
    [Nazvanie |-> <<>>, Data |-> <<>>, Kontragent |-> NoParticipant,
     NashaOrganizacija |-> NoParticipant, Primechanie |-> <<>>]

\* s.split(sep) for a one-character separator.
RECURSIVE Split(_, _)
Split(s, sep) ==
    LET cuts == {i \in 1..Len(s) : s[i] = sep}
    IN IF cuts = {} THEN <<s>>
       ELSE LET i == CHOOSE m \in cuts : \A o \in cuts : m <= o
            IN <<SubSeq(s, 1, i - 1)>> \o Split(SubSeq(s, i + 1, Len(s)), sep)

\* a.reverse()
Reverse(a) == [i \in 1..Len(a) |-> a[Len(a) + 1 - i]]

\* a.join(sep)
RECURSIVE Join(_, _)
Join(a, sep) ==
    IF Len(a) = 0 THEN <<>>
    ELSE IF Len(a) = 1 THEN a[1]
    ELSE a[1] \o <<sep>> \o Join(Tail(a), sep)

\* A plausible slip: the parts are joined in the order they came.
WireDateUnreversed(today) == Join(Split(today, 45), 46)

\* The Data property (line 208): today.split('-').reverse().join('.')
WireDate(today) == Join(Reverse(Split(today, 45)), 46)

\* A plausible slip: the inferred description wins over the explicit note.
NoteDescriptionFirst(normalizedNote, description) ==
    IF Truthy(description) THEN description
    ELSE IF Truthy(normalizedNote) THEN normalizedNote
    ELSE <<>>

\* The Primechanie property (line 213): normalizedNote || description || ''
Note(normalizedNote, description) ==
    IF Truthy(normalizedNote) THEN normalizedNote
    ELSE IF Truthy(description) THEN description
    ELSE <<>>

NoUploadResult ==
    [status |-> 0, statusText |-> "", rawBody |-> "", jsonParsed |-> FALSE, documentId |-> ""]

UploadThrow(error) == [thrown |-> TRUE, error |-> error, result |-> NoUploadResult]
UploadReturn(result) == [thrown |-> FALSE, error |-> NoError, result |-> result]
NoOutcome == [thrown |-> FALSE, error |-> NoError, result |-> NoUploadResult]

\* A plausible slip: the registration-code rule is left out.
KppRuleMissing(normalizedClientInn, effectiveClientKpp) == FALSE

\* The condition of line 162: an organization without registration code.
KppMissing(normalizedClientInn, effectiveClientKpp) ==
    Len(normalizedClientInn) = 10 /\ ~Truthy(effectiveClientKpp)

\* A plausible slip: the session id is not checked.
SessionCheckMissing(sessionId) == FALSE

\* The condition of line 141: no session id.
SessionMissing(sessionId) == sessionId = ""

\* performUpload up to the request body (lines 139-218): the HttpError it
\* throws, or the body it built.  now is what new Date().toISOString()
\* .slice(0, 10) reads off the clock.
performUploadBuild(params, now) ==
    IF SessionMissing(params.sessionId)
    THEN [thrown |-> TRUE, error |-> HttpError(400, MsgSessionRequired), body |-> NoBody]
    ELSE IF ~params.file.present
    THEN [thrown |-> TRUE, error |-> HttpError(400, MsgFileRequired), body |-> NoBody]
    ELSE IF ~Truthy(params.client.inn) \/ ~Truthy(params.our.inn)
    THEN [thrown |-> TRUE, error |-> HttpError(400, MsgInnsRequired), body |-> NoBody]
    ELSE
      LET originalname == params.file.originalname
          fileNameUtf == decodeFilename(IF Truthy(originalname) THEN originalname
                                        ELSE DefaultFileName)
          description == extractWeekDescription(fileNameUtf)
          normalizedNote == IF params.note = Absent THEN Undefined ELSE Trim(params.note)
          today == IF Truthy(params.date) THEN params.date ELSE now
          normalizedClientInn == StripSpaces(params.client.inn)
          effectiveClientKpp == IF Truthy(params.client.kpp) THEN Trim(params.client.kpp)
                                ELSE Undefined
      IN IF KppMissing(normalizedClientInn, effectiveClientKpp)
         THEN [thrown |-> TRUE, error |-> HttpError(400, MsgKppRequired), body |-> NoBody]
         ELSE
           LET counterparty == buildParticipant(
                   [params.client EXCEPT !.inn = normalizedClientInn,
                                         !.kpp = effectiveClientKpp])
           IN IF counterparty.thrown
              THEN [thrown |-> TRUE, error |-> counterparty.error, body |-> NoBody]
              ELSE LET ourSide == buildParticipant(params.our)
                   IN IF ourSide.thrown
                      THEN [thrown |-> TRUE, error |-> ourSide.error, body |-> NoBody]
                      ELSE [thrown |-> FALSE, error |-> NoError,
                            body |-> [Nazvanie |-> fileNameUtf,
                                      Data |-> WireDate(today),
                                      Kontragent |-> counterparty.value,
                                      NashaOrganizacija |-> ourSide.value,
                                      Primechanie |-> Note(normalizedNote,
                                                           description)]]

\* performUpload after the response arrived (lines 229-252).
performUploadSettle(response) ==
    IF response.failed THEN UploadThrow(PlainError(MsgFetchFailed))
    ELSE
      LET text == response.body.text
          jsonParsed == response.body.valid
          createdDocumentId ==
              IF ~jsonParsed THEN ""
              ELSE IF response.body.docId # "" THEN response.body.docId
              ELSE response.body.flatId
      IN IF ~Ok(response.status)
         THEN LET errorMessage ==
                      IF jsonParsed /\ response.body.errorMessage # ""
                      THEN response.body.errorMessage
                      ELSE StatusText(response.status)
              IN UploadThrow(HttpError(response.status, errorMessage))
         ELSE UploadReturn([status |-> response.status,
                            statusText |-> StatusText(response.status),
                            rawBody |-> text,
                            jsonParsed |-> jsonParsed,
                            documentId |-> createdDocumentId])

--------------------------------------------------------------------------
(* Sample inputs.                                                          *)

Digits10 == <<55, 55, 49, 50, 51, 52, 53, 54, 55, 56>>
Digits12 == <<53, 48, 48, 49, 48, 48, 55, 51, 50, 50, 53, 57>>
Digits9 == <<55, 55, 49, 50, 48, 49, 48, 48, 49>>
DotDocx == <<46, 100, 111, 99, 120>>

\* The UTF-8 bytes of the Cyrillic labels, as the latin1 characters of the
\* received name.
InnUpperBytes == <<208, 152, 208, 157, 208, 157>>
InnLowerBytes == <<208, 184, 208, 189, 208, 189>>
KppUpperBytes == <<208, 154, 208, 159, 208, 159>>

NameOrgKpp == InnUpperBytes \o Digits10 \o <<32>> \o KppUpperBytes \o Digits9 \o DotDocx
NameOrgNoKpp == InnUpperBytes \o Digits10 \o DotDocx
NamePerson == InnLowerBytes \o Digits12 \o DotDocx
NameUnlabeled == Digits10 \o DotDocx
NameShortInn == InnUpperBytes \o Digits9 \o DotDocx
NameEmpty == <<>>

FileNames == {NameOrgKpp, NameOrgNoKpp, NamePerson, NameUnlabeled, NameShortInn, NameEmpty}

OurOrg == [NoInput EXCEPT !.inn = Digits10, !.kpp = <<32>> \o Digits9]
OurPerson == [NoInput EXCEPT !.inn = SubSeq(Digits12, 1, 6) \o <<32>> \o SubSeq(Digits12, 7, 12),
                             !.lastName = <<73, 118, 97, 110, 111, 118, 32>>]
OurBadLength == [NoInput EXCEPT !.inn = Digits10 \o <<49>>]
OurSamples == {OurOrg, OurPerson, OurBadLength, NoInput}
\* The own party of a batch run: valid, invalid, missing.
BatchOurSamples == {OurOrg, OurBadLength, NoInput}

ClientOrgKpp == [NoInput EXCEPT !.inn = Digits10, !.kpp = Digits9]
ClientOrgSpaced == [NoInput EXCEPT !.inn = <<32>> \o Digits10, !.kpp = Digits9 \o <<32>>]
ClientOrgNoKpp == [NoInput EXCEPT !.inn = Digits10]
ClientOrgBlankKpp == [NoInput EXCEPT !.inn = Digits10, !.kpp = <<32, 32>>]
ClientPerson == [NoInput EXCEPT !.inn = Digits12, !.firstName = <<73, 118, 97, 110>>]
ClientLetters == [NoInput EXCEPT !.inn = SubSeq(Digits10, 1, 9) \o <<120>>, !.kpp = Digits9]
ClientSamples == {ClientOrgKpp, ClientOrgSpaced, ClientOrgNoKpp, ClientOrgBlankKpp,
                  ClientPerson, ClientLetters, NoInput}

SessionIds == {"", "sid-0"}

\* n in decimal, padded with zeros to the width.
Pad(n, width) ==
    LET digits == Decimal(n)
    IN [i \in 1..(width - Len(digits)) |-> 48] \o digits

\* The years of the dated names: the first years of the calendar, years
\* of 52 and of 53 weeks, the last four-digit year.
Years == {50, 99, 100, 101, 1999, 2020, 2021, 2024, 2026, 9999}

\* A name that holds day-month-year the way the pattern of line 62 reads it.
NameDated(day, month, year) ==
    <<114, 32>> \o Pad(day, 2) \o <<45>> \o Pad(month, 2) \o <<45>> \o Pad(year, 4) \o DotDocx

DatedNames == {NameDated(d, m, y) : d \in 0..MaxDay, m \in 0..MaxMonth, y \in Years}

\* Names without a date: none at all, a date with a one-digit day, dots
\* for dashes.
UndatedNames ==
    {NameOrgKpp, NameEmpty,
     <<53, 45, 48, 51, 45, 50, 48, 50, 52>> \o DotDocx,
     <<49, 53, 46, 48, 51, 46, 50, 48, 50, 52>> \o DotDocx}

\* body.date as the form sends it.
IsoDate(year, month, day) ==
    Pad(year, 4) \o <<45>> \o Pad(month, 2) \o <<45>> \o Pad(day, 2)

SuppliedDate == IsoDate(2024, 3, 15)

\* Supplied dates: well-formed ones, and 2024-3-5, 15.03.2024, 20240315.
Dates ==
    {IsoDate(y, m, d) : y \in {1, 1999, 2024, 9999}, m \in {1, 2, 12}, d \in {1, 29, 31}}
      \cup {<<50, 48, 50, 52, 45, 51, 45, 53>>,
            <<49, 53, 46, 48, 51, 46, 50, 48, 50, 52>>,
            <<50, 48, 50, 52, 48, 51, 49, 53>>,
            Undefined, Absent}

\* What new Date().toISOString().slice(0, 10) may read.
Clock == {IsoDate(2024, 12, 31), IsoDate(2025, 1, 1)}

\* body.note: not sent, empty, blank, a text with and without blanks around.
Notes == {Absent, Undefined, <<32, 9>>, <<32, 111, 107, 32, 49, 32>>, <<111, 107>>}

Credentials == {"", "secret"}

SeqsUpTo(S, n) == UNION {[1..k -> S] : k \in 0..n}

NoRequest ==
    [sessionId |-> "", client |-> NoInput, our |-> NoInput, files |-> <<>>,
     file |-> NoFile, date |-> Absent, note |-> Absent, login |-> "", password |-> "",
     sequential |-> TRUE, docFiles |-> <<>>]

--------------------------------------------------------------------------
(* The HTTP handlers of uiServer.ts.                                       *)

NoHttpRes ==
    [sent |-> FALSE, status |-> 0, error |-> "", total |-> 0, results |-> <<>>,
     upload |-> NoUploadResult, upstreamStatus |-> 0, rawBody |-> "",
     sessionId |-> "", ourOrganizations |-> ""]

\* res.status(status).json({ error })
ErrorRes(status, message) == [NoHttpRes EXCEPT !.sent = TRUE, !.status = status, !.error = message]

ResultEntry(fileName, ok, documentId, error) ==
    [fileName |-> fileName, ok |-> ok, documentId |-> documentId, error |-> error]

InitServerVars ==
    /\ pc = "start"
    /\ idx = 0
    /\ callParams = NoParams
    /\ attempt = "none"
    /\ attemptLog = <<>>
    /\ built = NoBody
    /\ outcome = NoOutcome
    /\ results = <<>>
    /\ remoteCalls = <<>>
    /\ responses = <<>>
    /\ httpRes = NoHttpRes

NoCallOutcome == [thrown |-> FALSE, message |-> "", value |-> ""]

IdleCaller == [pc |-> "idle", op |-> "", last |-> NoCallOutcome]

\* The identities of the callers that share one SabyClient instance.
Callers == {"main", "other"}

\* new SabyClient(config) (part_000 lines 3-6): no token.
InitClientIdle ==
    /\ token = ""
    /\ callers = [c \in Callers |-> IdleCaller]
    /\ calls = 0

InitBatch ==
    /\ mode = "batch"
    /\ \E sid \in SessionIds, our \in BatchOurSamples,
          names \in SeqsUpTo(FileNames, MaxFiles) :
          req = [NoRequest EXCEPT !.sessionId = sid, !.our = our, !.date = SuppliedDate,
                                  !.files = [i \in DOMAIN names |-> File(names[i])]]
    /\ InitServerVars
    /\ InitClientIdle

InitUpload ==
    /\ mode = "upload"
    /\ \E sid \in SessionIds, our \in OurSamples, client \in ClientSamples,
          file \in {NoFile, File(NameOrgKpp), File(NameEmpty)} :
          req = [NoRequest EXCEPT !.sessionId = sid, !.our = our, !.client = client,
                                  !.date = SuppliedDate, !.file = file]
    /\ InitServerVars
    /\ InitClientIdle

\* app.post('/api/upload/batch'): the files check and the start of the loop.
BatchBegin ==
    /\ mode = "batch" /\ pc = "start"
    /\ IF Len(req.files) = 0
       THEN /\ httpRes' = ErrorRes(400, MsgNoFiles)
            /\ pc' = "done"
            /\ idx' = idx
       ELSE /\ pc' = "loop"
            /\ idx' = 1
            /\ httpRes' = httpRes
    /\ UNCHANGED <<mode, req, callParams, attempt, attemptLog, built, outcome, results,
                   remoteCalls, responses, clientVars>>

\* One iteration up to the call of performUpload (lines 433-461): a file
\* without INN is recorded and the loop continues.
BatchIterate ==
    /\ mode = "batch" /\ pc = "loop" /\ idx <= Len(req.files)
    /\ LET file == req.files[idx]
           parsed == parseInnKppFromFilename(file.originalname)
       IN IF ~Truthy(parsed.inn)
          THEN /\ results' = Append(results,
                                ResultEntry(file.originalname, FALSE, "", MsgInnNotFound))
               /\ idx' = idx + 1
               /\ UNCHANGED <<pc, callParams, attempt, attemptLog>>
          ELSE /\ pc' = "upload"
               /\ callParams' = UploadParams(req.sessionId,
                                [NoInput EXCEPT !.inn = parsed.inn, !.kpp = parsed.kpp],
                                req.our, req.date, req.note, file)
               /\ attempt' = "Unvalidated"
               /\ attemptLog' = <<"Unvalidated">>
               /\ UNCHANGED <<results, idx>>
    /\ UNCHANGED <<mode, req, built, outcome, remoteCalls, responses, httpRes, clientVars>>

\* performUpload, lines 139-218: the preconditions and the request body.
UploadValidate ==
    /\ pc = "upload" /\ attempt = "Unvalidated"
    /\ \E now \in Clock :
       LET b == performUploadBuild(callParams, now)
       IN IF b.thrown
          THEN /\ attempt' = "Failed"
               /\ attemptLog' = Append(attemptLog, "Failed")
               /\ outcome' = UploadThrow(b.error)
               /\ pc' = "settled"
               /\ built' = NoBody
          ELSE /\ attempt' = "Validated"
               /\ attemptLog' = Append(attemptLog, "Validated")
               /\ built' = b.body
               /\ UNCHANGED <<outcome, pc>>
    /\ UNCHANGED <<mode, req, callParams, idx, results, remoteCalls, responses, httpRes, clientVars>>

\* performUpload, lines 220-227: the request is sent.
UploadSubmit ==
    /\ pc = "upload" /\ attempt = "Validated"
    /\ remoteCalls' = Append(remoteCalls, Call("submit", callParams.sessionId, idx))
    /\ attempt' = "Submitted"
    /\ attemptLog' = Append(attemptLog, "Submitted")
    /\ UNCHANGED <<mode, req, callParams, pc, idx, built, outcome, results, responses, httpRes,
                   clientVars>>

\* A plausible slip: a failed request is sent again.
UploadSettleRetry ==
    /\ pc = "upload" /\ attempt = "Submitted"
    /\ \E response \in (IF mode = "batch" THEN BatchResponses ELSE UploadResponses) :
          LET o == performUploadSettle(response)
          IN /\ responses' = Append(responses, Answer(response, "submit"))
             /\ outcome' = o
             /\ attempt' = IF o.thrown THEN "Validated" ELSE "Succeeded"
             /\ attemptLog' = IF o.thrown THEN attemptLog ELSE Append(attemptLog, "Succeeded")
             /\ pc' = IF o.thrown THEN "upload" ELSE "settled"
    /\ UNCHANGED <<mode, req, callParams, idx, built, results, remoteCalls, httpRes, clientVars>>

\* performUpload, lines 229-252: the response (or the rejection of fetch).
UploadSettle ==
    /\ pc = "upload" /\ attempt = "Submitted"
    /\ \E response \in (IF mode = "batch" THEN BatchResponses ELSE UploadResponses) :
          LET o == performUploadSettle(response)
          IN /\ responses' = Append(responses, Answer(response, "submit"))
             /\ outcome' = o
             /\ attempt' = IF o.thrown THEN "Failed" ELSE "Succeeded"
             /\ attemptLog' = Append(attemptLog, IF o.thrown THEN "Failed" ELSE "Succeeded")
    /\ pc' = "settled"
    /\ UNCHANGED <<mode, req, callParams, idx, built, results, remoteCalls, httpRes, clientVars>>

\* A plausible slip: no try/catch in the loop, so that a failed upload ends
\* the handler.
BatchRecordUncaught ==
    /\ mode = "batch" /\ pc = "settled"
    /\ IF outcome.thrown
       THEN /\ httpRes' = ErrorRes(500, outcome.error.message)
            /\ pc' = "done"
            /\ UNCHANGED <<results, idx>>
       ELSE /\ results' = Append(results,
                             ResultEntry(req.files[idx].originalname, TRUE,
                                         outcome.result.documentId, ""))
            /\ idx' = idx + 1
            /\ pc' = "loop"
            /\ UNCHANGED httpRes
    /\ UNCHANGED <<mode, req, callParams, attempt, attemptLog, built, outcome, remoteCalls,
                   responses, clientVars>>

\* The batch loop's try/catch around performUpload (lines 463-470).
BatchRecord ==
    /\ mode = "batch" /\ pc = "settled"
    /\ results' = Append(results,
                     IF outcome.thrown
                     THEN ResultEntry(req.files[idx].originalname, FALSE, "",
                                      outcome.error.message)
                     ELSE ResultEntry(req.files[idx].originalname, TRUE,
                                      outcome.result.documentId, ""))
    /\ idx' = idx + 1
    /\ pc' = "loop"
    /\ UNCHANGED <<mode, req, callParams, attempt, attemptLog, built, outcome, remoteCalls,
                   responses, httpRes, clientVars>>

\* res.json({ total: files.length, results }) (line 473).
BatchEnd ==
    /\ mode = "batch" /\ pc = "loop" /\ idx > Len(req.files)
    /\ httpRes' = [NoHttpRes EXCEPT !.sent = TRUE, !.status = 200,
                                    !.total = Len(req.files), !.results = results]
    /\ pc' = "done"
    /\ UNCHANGED <<mode, req, callParams, idx, attempt, attemptLog, built, outcome, results,
                   remoteCalls, responses, clientVars>>

\* app.post('/api/upload'): the call of performUpload (lines 372-396).
UploadBegin ==
    /\ mode = "upload" /\ pc = "start"
    /\ pc' = "upload"
    /\ callParams' = UploadParams(req.sessionId, req.client, req.our, req.date, req.note,
                                  req.file)
    /\ attempt' = "Unvalidated"
    /\ attemptLog' = <<"Unvalidated">>
    /\ UNCHANGED <<mode, req, idx, built, outcome, results, remoteCalls, responses,
                   httpRes, clientVars>>

\* A plausible slip: the catch answers 500 whatever the error is.
UploadRespondAlways500 ==
    /\ mode = "upload" /\ pc = "settled"
    /\ httpRes' = IF outcome.thrown
                  THEN ErrorRes(500, outcome.error.message)
                  ELSE [NoHttpRes EXCEPT !.sent = TRUE, !.status = 200,
                                         !.upload = outcome.result]
    /\ pc' = "done"
    /\ UNCHANGED <<mode, req, callParams, idx, attempt, attemptLog, built, outcome, results,
                   remoteCalls, responses, clientVars>>

\* app.post('/api/upload'): res.json(result), or the catch (lines 398-402).
UploadRespond ==
    /\ mode = "upload" /\ pc = "settled"
    /\ httpRes' = IF outcome.thrown
                  THEN ErrorRes(IF outcome.error.isHttpError
                                THEN outcome.error.statusCode ELSE 500,
                                outcome.error.message)
                  ELSE [NoHttpRes EXCEPT !.sent = TRUE, !.status = 200,
                                         !.upload = outcome.result]
    /\ pc' = "done"
    /\ UNCHANGED <<mode, req, callParams, idx, attempt, attemptLog, built, outcome, results,
                   remoteCalls, responses, clientVars>>

InitAuth ==
    /\ mode = "auth"
    /\ \E login \in Credentials, password \in Credentials :
          req = [NoRequest EXCEPT !.login = login, !.password = password]
    /\ InitServerVars
    /\ InitClientIdle

\* (json as any)?.result ?? (json as any)?.answer, as its type and its text.
AuthResult(body) ==
    IF ~body.valid \/ body.isNull THEN [type |-> "absent", str |-> ""]
    ELSE IF body.result # "absent" THEN [type |-> body.result, str |-> body.resultStr]
    ELSE [type |-> body.answer, str |-> body.answerStr]

\* res.json({ status, ..., sessionId, ourOrganizations }) (lines 335-343).
AuthRes(response, ourOrgs) ==
    LET result == AuthResult(response.body)
    IN [NoHttpRes EXCEPT !.sent = TRUE, !.status = 200,
                         !.upstreamStatus = response.status,
                         !.rawBody = response.body.text,
                         !.sessionId = IF result.type = "string" THEN result.str ELSE "",
                         !.ourOrganizations = ourOrgs]

\* app.post('/api/auth'), lines 260-291: the credentials check and the
\* authentication request.
AuthBegin ==
    /\ mode = "auth" /\ pc = "start"
    /\ IF req.login = "" \/ req.password = ""
       THEN /\ httpRes' = ErrorRes(400, "baseUrl, login i password objazatel'ny")
            /\ pc' = "done"
            /\ UNCHANGED remoteCalls
       ELSE /\ remoteCalls' = Append(remoteCalls, Call("auth", "", 0))
            /\ pc' = "authWait"
            /\ UNCHANGED httpRes
    /\ UNCHANGED <<mode, req, callParams, idx, attempt, attemptLog, built, outcome, results,
                   responses, clientVars>>

\* Lines 293-321 (and 335-346 when there is no session): the
\* authentication response; a string result starts the organizations call.
AuthResponse ==
    /\ mode = "auth" /\ pc = "authWait"
    /\ \E response \in AuthResponses :
          /\ responses' = Append(responses, Answer(response, "auth"))
          /\ IF response.failed
             THEN /\ httpRes' = ErrorRes(500, MsgFetchFailed)
                  /\ pc' = "done"
                  /\ UNCHANGED remoteCalls
             ELSE LET result == AuthResult(response.body)
                  IN IF result.type = "string"
                     THEN /\ remoteCalls' = Append(remoteCalls, Call("orgs", result.str, 0))
                          /\ pc' = "orgWait"
                          /\ UNCHANGED httpRes
                     ELSE /\ httpRes' = AuthRes(response, "")
                          /\ pc' = "done"
                          /\ UNCHANGED remoteCalls
    /\ UNCHANGED <<mode, req, callParams, idx, attempt, attemptLog, built, outcome, results,
                   clientVars>>

\* orgJson.result?.NashaOrganizacija ?? null inside the two try blocks
\* (lines 323-332): every failure leaves ourOrgs null.
OurOrgs(response) ==
    IF response.failed \/ ~response.body.valid \/ response.body.isNull THEN ""
    ELSE response.body.orgs

\* A plausible slip: the organizations call outside the inner try blocks, so
\* that its failure reaches the handler's catch.
OrgResponseUncaught ==
    /\ mode = "auth" /\ pc = "orgWait"
    /\ \E response \in OrgResponses :
          /\ responses' = Append(responses, Answer(response, "orgs"))
          /\ httpRes' = IF response.failed \/ ~response.body.valid \/ response.body.isNull
                        THEN ErrorRes(500, MsgFetchFailed)
                        ELSE AuthRes(responses[1], response.body.orgs)
    /\ pc' = "done"
    /\ UNCHANGED <<mode, req, callParams, idx, attempt, attemptLog, built, outcome, results,
                   remoteCalls, clientVars>>

\* Lines 323-343: the organizations response, then res.json.
OrgResponse ==
    /\ mode = "auth" /\ pc = "orgWait"
    /\ \E response \in OrgResponses :
          /\ responses' = Append(responses, Answer(response, "orgs"))
          /\ httpRes' = AuthRes(responses[1], OurOrgs(response))
    /\ pc' = "done"
    /\ UNCHANGED <<mode, req, callParams, idx, attempt, attemptLog, built, outcome, results,
                   remoteCalls, clientVars>>

NextAuth == AuthBegin \/ AuthResponse \/ OrgResponse

NextBatch == BatchBegin \/ BatchIterate \/ BatchRecord \/ BatchEnd

NextUpload == UploadBegin \/ UploadRespond

NextPerformUpload == UploadValidate \/ UploadSubmit \/ UploadSettle

--------------------------------------------------------------------------
(* SabyClient (part_000) and its callers.                                  *)

BodyToken1 == [Body("{token:tok-1}") EXCEPT !.token = "tok-1"]
BodyToken2 == [Body("{token:tok-2}") EXCEPT !.token = "tok-2"]

ClientAuthResponses ==
    {Response(200, BodyToken1), Response(200, BodyToken2), Response(200, BodyEmptyObject),
     Response(200, BodyGarbage), Response(401, BodyError), TransportFailure}

ClientUploadResponses ==
    {Response(200, BodyDocId), Response(200, BodyGarbage), Response(500, BodyError),
     TransportFailure}

CallThrow(message) == [thrown |-> TRUE, message |-> message, value |-> ""]
CallReturn(value) == [thrown |-> FALSE, message |-> "", value |-> value]

MsgAuthFailed(status) ==
    CASE status = 401 -> "Saby auth failed: 401 Unauthorized"
      [] status = 500 -> "Saby auth failed: 500 Internal Server Error"
      [] OTHER -> "Saby auth failed"
MsgUploadFailed(status) ==
    CASE status = 401 -> "Upload draft failed: 401 Unauthorized"
      [] status = 500 -> "Upload draft failed: 500 Internal Server Error"
      [] OTHER -> "Upload draft failed"
MsgJsonFailed == "SyntaxError: Unexpected token in JSON"
MsgNullData == "TypeError: Cannot read properties of null"
MsgReadFailed == "ENOENT: no such file or directory"

\* The call of caller c ended: it returned or threw `o`.
Finish(c, o) == [callers EXCEPT ![c] = [pc |-> "idle", op |-> "", last |-> o]]

\* In a sequential run a call starts only when no other call is under way.
MayStart(c) ==
    /\ callers[c].pc = "idle"
    /\ req.sequential => \A o \in Callers : callers[o].pc = "idle"

\* A plausible slip: the cached token is not consulted.
authenticateBeginNoCache(c, op) ==
    /\ remoteCalls' = Append(remoteCalls, Call("client-auth", "", idx))
    /\ callers' = [callers EXCEPT ![c] = [pc |-> "authWait", op |-> op,
                                           last |-> NoCallOutcome]]

\* authenticate() up to its first await (lines 8-17): the cached token is
\* returned, or the authentication request is sent.
authenticateBegin(c, op) ==
    IF token # ""
    THEN IF op = "authenticate"
         THEN /\ callers' = Finish(c, CallReturn(token))
              /\ UNCHANGED remoteCalls
         ELSE \* uploadDraftDocument goes on: lines 27-40
              /\ remoteCalls' = Append(remoteCalls, Call("client-upload", token, idx))
              /\ callers' = [callers EXCEPT ![c] = [pc |-> "uploadWait", op |-> op,
                                                     last |-> NoCallOutcome]]
    ELSE /\ remoteCalls' = Append(remoteCalls, Call("client-auth", "", idx))
         /\ callers' = [callers EXCEPT ![c] = [pc |-> "authWait", op |-> op,
                                                last |-> NoCallOutcome]]

\* A plausible slip: the failure is remembered in place of a token.
authenticateSettleCachesFailure(response) ==
    IF response.failed THEN [thrown |-> TRUE, message |-> MsgFetchFailed, token |-> "failed"]
    ELSE IF ~Ok(response.status)
    THEN [thrown |-> TRUE, message |-> MsgAuthFailed(response.status), token |-> "failed"]
    ELSE IF ~response.body.valid
    THEN [thrown |-> TRUE, message |-> MsgJsonFailed, token |-> token]
    ELSE IF response.body.isNull
    THEN [thrown |-> TRUE, message |-> MsgNullData, token |-> token]
    ELSE [thrown |-> FALSE, message |-> "", token |-> response.body.token]

\* authenticate() after the response (lines 18-23): what it throws, or the
\* token it stores and returns.
authenticateSettle(response) ==
    IF response.failed THEN [thrown |-> TRUE, message |-> MsgFetchFailed, token |-> token]
    ELSE IF ~Ok(response.status)
    THEN [thrown |-> TRUE, message |-> MsgAuthFailed(response.status), token |-> token]
    ELSE IF ~response.body.valid
    THEN [thrown |-> TRUE, message |-> MsgJsonFailed, token |-> token]
    ELSE IF response.body.isNull
    THEN [thrown |-> TRUE, message |-> MsgNullData, token |-> token]
    ELSE [thrown |-> FALSE, message |-> "", token |-> response.body.token]

\* A caller calls client.authenticate().
CallAuthenticate(c) ==
    /\ mode = "clients" /\ MayStart(c) /\ calls < MaxCalls
    /\ calls' = calls + 1
    /\ authenticateBegin(c, "authenticate")
    /\ UNCHANGED <<mode, req, callParams, pc, idx, attempt, attemptLog, built, outcome, results,
                   responses, httpRes, token>>

\* A caller calls client.uploadDraftDocument(meta, fileBuffer, fileName).
CallUploadDraftDocument(c) ==
    /\ mode = "clients" /\ MayStart(c) /\ calls < MaxCalls
    /\ calls' = calls + 1
    /\ authenticateBegin(c, "uploadDraftDocument")
    /\ UNCHANGED <<mode, req, callParams, pc, idx, attempt, attemptLog, built, outcome, results,
                   responses, httpRes, token>>

\* The authentication response reaches the authenticate() that awaits it.
ClientAuthResponse(c) ==
    /\ callers[c].pc = "authWait"
    /\ \E response \in ClientAuthResponses :
          LET a == authenticateSettle(response)
          IN /\ responses' = Append(responses, Answer(response, "client-auth"))
             /\ token' = a.token
             /\ IF a.thrown
                THEN /\ callers' = Finish(c, CallThrow(a.message))
                     /\ UNCHANGED remoteCalls
                ELSE IF callers[c].op = "authenticate"
                THEN /\ callers' = Finish(c, CallReturn(a.token))
                     /\ UNCHANGED remoteCalls
                ELSE /\ remoteCalls' = Append(remoteCalls,
                                           Call("client-upload", a.token, idx))
                     /\ callers' = [callers EXCEPT ![c].pc = "uploadWait"]
    /\ UNCHANGED <<mode, req, callParams, pc, idx, attempt, attemptLog, built, outcome, results,
                   httpRes, calls>>

\* uploadDraftDocument after its response (lines 41-44).
uploadDraftSettle(response) ==
    IF response.failed THEN CallThrow(MsgFetchFailed)
    ELSE IF ~Ok(response.status) THEN CallThrow(MsgUploadFailed(response.status))
    ELSE IF ~response.body.valid THEN CallThrow(MsgJsonFailed)
    ELSE CallReturn(response.body.text)

ClientUploadResponse(c) ==
    /\ callers[c].pc = "uploadWait"
    /\ \E response \in ClientUploadResponses :
          /\ responses' = Append(responses, Answer(response, "client-upload"))
          /\ callers' = Finish(c, uploadDraftSettle(response))
    /\ UNCHANGED <<mode, req, callParams, pc, idx, attempt, attemptLog, built, outcome, results,
                   remoteCalls, httpRes, token, calls>>

NextClient ==
    \E c \in Callers : \/ CallAuthenticate(c)
                       \/ CallUploadDraftDocument(c)
                       \/ ClientAuthResponse(c)
                       \/ ClientUploadResponse(c)

InitClients ==
    /\ mode = "clients"
    /\ \E sequential \in BOOLEAN : req = [NoRequest EXCEPT !.sequential = sequential]
    /\ InitServerVars
    /\ InitClientIdle

--------------------------------------------------------------------------
(* cli.js: main with --dir (lines 54-95).                                  *)

\* The paths of the doc files of the folder, in readdir order.
DocFile(i) == 100 + i

InitCli ==
    /\ mode = "cli"
    /\ \E n \in 0..MaxFiles :
          req = [NoRequest EXCEPT !.sequential = TRUE,
                                  !.docFiles = [i \in 1..n |-> DocFile(i)]]
    /\ InitServerVars
    /\ InitClientIdle

CliEntry(file, ok, error) == [fileName |-> file, ok |-> ok, documentId |-> "", error |-> error]

\* Lines 64-68: an empty folder ends main; otherwise the loop starts.
CliBegin ==
    /\ mode = "cli" /\ pc = "start"
    /\ IF Len(req.docFiles) = 0
       THEN pc' = "done" /\ idx' = idx
       ELSE pc' = "loop" /\ idx' = 1
    /\ UNCHANGED <<mode, req, callParams, attempt, attemptLog, built, outcome, results, remoteCalls,
                   responses, httpRes, clientVars>>

\* One iteration up to its first await on the network: loadDocumentForEdo
\* reads the file (a failure is caught and recorded, lines 77-81) and calls
\* client.uploadDraftDocument.
CliIterate ==
    /\ mode = "cli" /\ pc = "loop" /\ idx <= Len(req.docFiles)
    /\ \E readOk \in BOOLEAN :
          IF ~readOk
          THEN /\ results' = Append(results, CliEntry(req.docFiles[idx], FALSE, MsgReadFailed))
               /\ idx' = idx + 1
               /\ UNCHANGED <<pc, remoteCalls, callers, calls>>
          ELSE /\ pc' = "call"
               /\ calls' = calls + 1
               /\ authenticateBegin("main", "uploadDraftDocument")
               /\ UNCHANGED <<results, idx>>
    /\ UNCHANGED <<mode, req, callParams, attempt, attemptLog, built, outcome, responses, httpRes,
                   token>>

\* Lines 72-81: the call returned (ok: true) or threw (ok: false, error).
CliRecord ==
    /\ mode = "cli" /\ pc = "call" /\ callers["main"].pc = "idle"
    /\ results' = Append(results,
                     IF callers["main"].last.thrown
                     THEN CliEntry(req.docFiles[idx], FALSE, callers["main"].last.message)
                     ELSE CliEntry(req.docFiles[idx], TRUE, ""))
    /\ idx' = idx + 1
    /\ pc' = "loop"
    /\ UNCHANGED <<mode, req, callParams, attempt, attemptLog, built, outcome, remoteCalls,
                   responses, httpRes, clientVars>>

\* Lines 83-94: the summary is printed and main returns.
CliEnd ==
    /\ mode = "cli" /\ pc = "loop" /\ idx > Len(req.docFiles)
    /\ httpRes' = [NoHttpRes EXCEPT !.sent = TRUE, !.total = Len(results),
                                    !.results = results]
    /\ pc' = "done"
    /\ UNCHANGED <<mode, req, callParams, idx, attempt, attemptLog, built, outcome, results,
                   remoteCalls, responses, clientVars>>

NextCli ==
    \/ CliBegin \/ CliIterate \/ CliRecord \/ CliEnd
    \/ ClientAuthResponse("main")
    \/ ClientUploadResponse("main")

--------------------------------------------------------------------------
(* buildParticipant applied to tax ids of every length up to MaxInnLen.    *)

\* The digit string of length n: 1234567890123...
InnDigits(n) == [i \in 1..n |-> 48 + (i % 10)]

\* The same digits with white space inside and around.
InnSpaced(n) ==
    <<32>> \o SubSeq(InnDigits(n), 1, n \div 2) \o <<9, 32>>
           \o SubSeq(InnDigits(n), n \div 2 + 1, n) \o <<160>>

\* The digits followed by a letter.
InnLettered(n) == InnDigits(n) \o <<97>>

InnInputs ==
    UNION {{InnDigits(n), InnSpaced(n), InnLettered(n)} : n \in 0..MaxInnLen}

ResolveInputs ==
    {ParticipantInput(inn, kpp, lastName, Undefined, Undefined, snils) :
        inn \in InnInputs,
        kpp \in {Undefined, <<32>> \o Digits9},
        lastName \in {Undefined, <<73, 118, 97, 110, 111, 118, 32>>},
        snils \in {Undefined, <<49, 50, 51>>}}

InitResolve ==
    /\ mode = "resolve"
    /\ \E input \in ResolveInputs : req = [NoRequest EXCEPT !.client = input]
    /\ InitServerVars
    /\ InitClientIdle

\* buildParticipant(req.client): the result is kept in built.Kontragent, the
\* error thrown in outcome.
Resolve ==
    /\ mode = "resolve" /\ pc = "start"
    /\ LET r == buildParticipant(req.client)
       IN /\ built' = [NoBody EXCEPT !.Kontragent = r.value]
          /\ outcome' = IF r.thrown THEN UploadThrow(r.error) ELSE NoOutcome
    /\ pc' = "done"
    /\ UNCHANGED <<mode, req, callParams, idx, attempt, attemptLog, results, remoteCalls,
                   responses, httpRes, clientVars>>

--------------------------------------------------------------------------
(* The request construction of performUpload over bounded file names,      *)
(* notes and dates: POST /api/upload with valid parties.                   *)

InitDocument ==
    /\ mode = "upload"
    /\ \/ \E name \in DatedNames \cup UndatedNames :
             req = [NoRequest EXCEPT !.sessionId = "sid-0", !.our = OurOrg,
                                     !.client = ClientOrgKpp, !.date = SuppliedDate,
                                     !.file = File(name)]
       \/ \E name \in {NameDated(15, 3, 2024), NameDated(1, 1, 2021), NameOrgKpp},
             date \in Dates, note \in Notes :
             req = [NoRequest EXCEPT !.sessionId = "sid-0", !.our = OurOrg,
                                     !.client = ClientPerson, !.date = date,
                                     !.note = note, !.file = File(name)]
    /\ InitServerVars
    /\ InitClientIdle

--------------------------------------------------------------------------
(* The specifications.                                                     *)

Init == InitBatch \/ InitUpload \/ InitAuth

Next == NextBatch \/ NextUpload \/ NextPerformUpload \/ NextAuth

Spec == Init /\ [][Next]_vars

\* The command-line program and callers sharing one SabyClient.
InitClient == InitCli \/ InitClients

SpecClient == InitClient /\ [][NextCli \/ NextClient]_vars

\* Both batch loops: POST /api/upload/batch and the CLI's --dir.
SpecBatchRuns ==
    (InitBatch \/ InitCli) /\ [][NextBatch \/ NextPerformUpload \/ NextCli]_vars

\* buildParticipant over the bounded tax ids.
SpecResolve == InitResolve /\ [][Resolve]_vars

\* The request body over the bounded file names, notes and dates.
SpecDocument == InitDocument /\ [][UploadBegin \/ UploadValidate]_vars

--------------------------------------------------------------------------
(* Properties.                                                             *)

\* The names of the input files of a batch run, in input order.
InputNames ==
    IF mode = "batch" THEN [i \in DOMAIN req.files |-> req.files[i].originalname]
    ELSE req.docFiles

\* The remote calls issued for input file i.
CallsFor(i) == {k \in DOMAIN remoteCalls : remoteCalls[k].forFile = i}

\* What the checks before the request make of a file submitted on its own
\* with the shared parameters: computed once per file name, from the file
\* and the shared parameters alone.
OwnValidation ==
    [sid \in SessionIds, our \in BatchOurSamples, name \in FileNames |->
        LET parsed == parseInnKppFromFilename(name)
            b == performUploadBuild(UploadParams(sid,
                     [NoInput EXCEPT !.inn = parsed.inn, !.kpp = parsed.kpp],
                     our, SuppliedDate, Absent, File(name)), SuppliedDate)
        IN IF ~Truthy(parsed.inn) THEN [thrown |-> TRUE, message |-> MsgInnNotFound]
           ELSE [thrown |-> b.thrown, message |-> b.error.message]]

\* The entry file i gets when it is submitted on its own: it depends on the
\* file, the shared parameters and the response to its own request only.
OwnBatchEntry(i) ==
    LET name == req.files[i].originalname
        v == OwnValidation[req.sessionId, req.our, name]
    IN IF v.thrown THEN ResultEntry(name, FALSE, "", v.message)
       ELSE LET k == CHOOSE k \in CallsFor(i) : remoteCalls[k].kind = "submit"
                response == [responses[k] EXCEPT !.to = ""]
                o == performUploadSettle(response)
            IN IF o.thrown THEN ResultEntry(name, FALSE, "", o.error.message)
               ELSE ResultEntry(name, TRUE, o.result.documentId, "")

\* The same for the CLI's loop: ok exactly when the file's own upload
\* request was answered with a success status and a JSON body.
OwnCliOk(i) ==
    \E k \in CallsFor(i) :
        /\ remoteCalls[k].kind = "client-upload"
        /\ k \in DOMAIN responses
        /\ ~responses[k].failed /\ Ok(responses[k].status) /\ responses[k].body.valid

\* C1: in both batch loops the result list grows by exactly one entry per
\* input file, in input order; entry i carries the name of file i and the
\* outcome of file i alone, whatever happened to the files before it; at
\* the end there is one entry per file and total is the number of files.
C1_BatchOneEntryPerFileInOrder ==
    mode \in {"batch", "cli"} =>
        /\ pc \in {"loop", "upload", "settled", "call"} => Len(results) = idx - 1
        /\ Len(results) <= Len(InputNames)
        /\ \A i \in DOMAIN results :
              /\ results[i].fileName = InputNames[i]
              /\ mode = "batch" => results[i] = OwnBatchEntry(i)
              /\ mode = "cli" => (results[i].ok <=> OwnCliOk(i))
        /\ (pc = "done" /\ Len(InputNames) > 0) =>
              /\ Len(results) = Len(InputNames)
              /\ httpRes.sent /\ httpRes.error = ""
              /\ httpRes.total = Len(InputNames)
              /\ httpRes.results = results

\* C1's case: three files, the second fails validation (no registration
\* code), the first and the third are submitted and succeed.
C1_Witness ==
    /\ mode = "batch" /\ pc = "done" /\ Len(req.files) = 3
    /\ Len(httpRes.results) = 3
    /\ httpRes.results[1].ok
    /\ ~httpRes.results[2].ok /\ httpRes.results[2].error = MsgKppRequired
    /\ httpRes.results[3].ok /\ httpRes.results[3].documentId = "doc-1"

\* A labelled tax id, read off the decoded name: the Cyrillic letters I, N,
\* N in either case, then at least ten digits.
HasLabeledTaxId(s) ==
    \E i \in 1..Len(s) :
        /\ i + 12 <= Len(s)
        /\ s[i] \in {1048, 1080}
        /\ s[i + 1] \in {1053, 1085}
        /\ s[i + 2] \in {1053, 1085}
        /\ \A k \in 3..12 : s[i + k] >= 48 /\ s[i + k] <= 57

\* Per file name, computed once: its decoded form holds no labelled tax id.
UnlabeledName == [name \in FileNames |-> ~HasLabeledTaxId(decodeFilename(name))]

Unlabeled(i) == UnlabeledName[req.files[i].originalname]

\* C2: in a batch, a file whose decoded name holds no labelled tax id is
\* recorded as failed with the "INN not found" error, no remote request is
\* ever issued for it, and the loop goes on to the next file.
C2_NoTaxIdRecordedAndSkipped ==
    mode = "batch" =>
        /\ \A k \in DOMAIN remoteCalls : ~Unlabeled(remoteCalls[k].forFile)
        /\ \A i \in DOMAIN req.files :
              (Unlabeled(i) /\ (i < idx \/ pc = "done")) =>
                  /\ i \in DOMAIN results
                  /\ results[i] = ResultEntry(req.files[i].originalname, FALSE, "",
                                              MsgInnNotFound)
                  /\ (pc = "loop" /\ idx = i + 1) \/ idx > i + 1 \/ pc # "loop"
        /\ \A i \in DOMAIN req.files :
              (Unlabeled(i) /\ pc \in {"upload", "settled"}) => idx # i

\* C2's case: a file without tax id was recorded and the next file was
\* then submitted.
C2_Witness ==
    /\ mode = "batch" /\ pc = "done" /\ Len(results) >= 2
    /\ Unlabeled(1)
    /\ results[1].error = MsgInnNotFound
    /\ results[2].ok
    /\ \E k \in DOMAIN remoteCalls : remoteCalls[k].forFile = 2

\* The parameters of the attempt under way name a 10-digit counterparty tax
\* id and no registration code (none, or white space only).
TenDigitsNoKpp(p) ==
    /\ Len(StripSpaces(p.client.inn)) = 10
    /\ \A i \in 1..Len(p.client.inn) :
          IsDigit(p.client.inn[i]) \/ IsSpace(p.client.inn[i])
    /\ \A i \in 1..Len(p.client.kpp) : IsSpace(p.client.kpp[i])

\* The submission requests issued for the attempt under way.
AttemptCalls ==
    {k \in DOMAIN remoteCalls :
        remoteCalls[k].kind = "submit" /\ remoteCalls[k].forFile = idx}

AttemptUnderWay == pc \in {"upload", "settled"} /\ attempt # "Unvalidated"

\* C3: an attempt for a 10-digit counterparty tax id without registration
\* code is rejected with an HttpError of status 400 and no request is sent
\* for it.
C3_KppRequiredBeforeRemoteCall ==
    (AttemptUnderWay /\ TenDigitsNoKpp(callParams)) =>
        /\ attempt = "Failed"
        /\ outcome.thrown /\ outcome.error.isHttpError /\ outcome.error.statusCode = 400
        /\ AttemptCalls = {}

\* C3's case: everything else is in order and the registration-code rule
\* itself rejects the single upload, before any request.
C3_Witness ==
    /\ mode = "upload" /\ pc = "done"
    /\ req.client = ClientOrgBlankKpp /\ req.sessionId # "" /\ req.file.present
    /\ req.our = OurOrg
    /\ httpRes.status = 400 /\ httpRes.error = MsgKppRequired
    /\ remoteCalls = <<>>

ValidInn(inn) ==
    LET n == StripSpaces(inn)
    IN /\ Len(n) \in {10, 12}
       /\ \A i \in 1..Len(n) : IsDigit(n[i])

\* Every validation precondition of a submission, stated on the parameters.
PreconditionsHold(p) ==
    /\ p.sessionId # ""
    /\ p.file.present
    /\ ValidInn(p.client.inn)
    /\ ValidInn(p.our.inn)
    /\ ~TenDigitsNoKpp(p)

AllowedAttemptLogs ==
    {<<"Unvalidated">>,
     <<"Unvalidated", "Failed">>,
     <<"Unvalidated", "Validated">>,
     <<"Unvalidated", "Validated", "Submitted">>,
     <<"Unvalidated", "Validated", "Submitted", "Succeeded">>,
     <<"Unvalidated", "Validated", "Submitted", "Failed">>}

\* C4: an attempt goes Unvalidated -> Validated -> Submitted -> Succeeded
\* or Failed; it is Validated exactly when every precondition holds, its
\* one request is sent only then, and otherwise it goes straight to Failed
\* with an HttpError of status 400 and no request.
C4_AttemptStateMachine ==
    pc \in {"upload", "settled"} =>
        /\ attemptLog \in AllowedAttemptLogs
        /\ attempt = attemptLog[Len(attemptLog)]
        /\ Cardinality(AttemptCalls) =
              (IF \E i \in DOMAIN attemptLog : attemptLog[i] = "Submitted" THEN 1 ELSE 0)
        /\ attempt # "Unvalidated" =>
              IF PreconditionsHold(callParams)
              THEN attemptLog[2] = "Validated"
              ELSE /\ attemptLog = <<"Unvalidated", "Failed">>
                   /\ outcome.thrown /\ outcome.error.isHttpError
                   /\ outcome.error.statusCode = 400
                   /\ outcome.error.message # ""
                   /\ AttemptCalls = {}

\* C4's case: the counterparty passes, our own tax id has a bad length, and
\* the attempt fails without a request.
C4_Witness ==
    /\ mode = "upload" /\ pc = "settled"
    /\ req.sessionId # "" /\ req.file.present /\ req.client = ClientOrgSpaced
    /\ req.our = OurBadLength
    /\ attemptLog = <<"Unvalidated", "Failed">>
    /\ outcome.error.message = MsgInnLength
    /\ remoteCalls = <<>>

\* The authentication requests of the SabyClient and their answers.
ClientAuthCalls == {k \in DOMAIN remoteCalls : remoteCalls[k].kind = "client-auth"}

ClientAuthAnswers == {k \in DOMAIN responses : responses[k].to = "client-auth"}

\* An authentication request answered with success: authenticate() ran to
\* its end without throwing.
SuccessfulAuth(r) == ~r.failed /\ Ok(r.status) /\ r.body.valid /\ ~r.body.isNull

\* The step issues no authentication request, sends every new upload
\* request with the cached token, and an authenticate() that returns in it
\* returns the cached token.
ReusesToken ==
    /\ token' = token
    /\ \A k \in DOMAIN remoteCalls' \ DOMAIN remoteCalls :
          /\ remoteCalls'[k].kind = "client-upload"
          /\ remoteCalls'[k].session = token
    /\ \A c \in Callers :
          (callers[c].pc = "idle" /\ callers'[c].pc = "idle" /\ callers'[c] # callers[c]) =>
              callers'[c].last = CallReturn(token)

\* C5 as stated: in sequential use, once a token is cached every later call
\* reuses it and issues no authentication request, and at most one
\* authentication request per instance is answered with success.
C5_Original ==
    /\ [][(req.sequential /\ token # "") => ReusesToken]_vars
    /\ [](req.sequential =>
            Cardinality({k \in ClientAuthAnswers : SuccessfulAuth(responses[k])}) <= 1)

\* C5 amended: in sequential use, once a token is cached every later call
\* reuses it and issues no authentication request, and at most one
\* authentication request per instance yields a token (a success response
\* without a token caches nothing and the next call authenticates again).
C5_TokenCachedAndReused ==
    /\ [][(req.sequential /\ token # "") => ReusesToken]_vars
    /\ [](req.sequential =>
            Cardinality({k \in ClientAuthAnswers :
                            SuccessfulAuth(responses[k]) /\ responses[k].body.token # ""}) <= 1)

\* C5's case: the CLI uploaded two files; the first upload authenticated,
\* the second reused the token without another authentication request.
C5_Witness ==
    /\ mode = "cli" /\ Len(results) >= 2
    /\ results[1].ok /\ results[2].ok
    /\ token = "tok-1"
    /\ Cardinality(ClientAuthCalls) = 1
    /\ \A k \in CallsFor(2) : remoteCalls[k].kind = "client-upload"
                              /\ remoteCalls[k].session = "tok-1"

\* C6 as stated: at most one authentication request is in flight at any
\* time, and callers that awaited authentication got the same token.
C6_SingleFlight ==
    /\ Cardinality({c \in Callers : callers[c].pc = "authWait"}) <= 1
    /\ \A k, l \in DOMAIN remoteCalls :
          (remoteCalls[k].kind = "client-upload" /\ remoteCalls[l].kind = "client-upload"
             /\ remoteCalls[k].session # "" /\ remoteCalls[l].session # "")
          => remoteCalls[k].session = remoteCalls[l].session

\* C7 as stated: a submission response with a non-success status or with
\* an error payload ends the attempt as an upstream failure that carries
\* the remote status; it is never returned as a success.
C7_ErrorResponseIsFailure ==
    (pc = "settled" /\ Len(attemptLog) = 4 /\ ~responses[Len(responses)].failed
       /\ (~Ok(responses[Len(responses)].status) \/ responses[Len(responses)].body.hasError))
    => /\ attempt = "Failed"
       /\ outcome.thrown /\ outcome.error.isHttpError
       /\ outcome.error.statusCode = responses[Len(responses)].status

\* C8 as stated, for the /api/auth handler: one remote call, and a
\* non-success authentication response makes the handler fail with the
\* remote status and yields no session id.
C8_AuthFailsOnNonSuccess ==
    (mode = "auth" /\ pc = "done" /\ Len(responses) >= 1 /\ ~responses[1].failed
       /\ ~Ok(responses[1].status))
    => /\ Len(remoteCalls) = 1
       /\ httpRes.error # ""
       /\ httpRes.status = responses[1].status
       /\ httpRes.sessionId = ""

\* The session identifier the authentication response carries, read off the
\* body: the result, or else the answer, when it is a string.
YieldedSessionId(body) ==
    IF body.valid /\ body.result = "string" THEN body.resultStr
    ELSE IF body.valid /\ body.result = "absent" /\ body.answer = "string" THEN body.answerStr
    ELSE ""

\* The organizations call failed, or its answer is not JSON or holds no
\* organizations.
OrgCallDegraded(r) == r.failed \/ ~r.body.valid \/ r.body.orgs = ""

\* C9: once the authentication call yielded a session identifier, the
\* handler answers 200 with that identifier whatever the organizations call
\* does; a failed, unparsable or unexpected organizations answer only
\* leaves ourOrganizations null.
C9_OrgListingBestEffort ==
    (mode = "auth" /\ Len(responses) >= 1 /\ ~responses[1].failed
       /\ YieldedSessionId(responses[1].body) # "")
    => /\ pc \in {"orgWait", "done"}
       /\ Len(remoteCalls) = 2 /\ remoteCalls[2].kind = "orgs"
       /\ remoteCalls[2].session = YieldedSessionId(responses[1].body)
       /\ pc = "done" =>
             /\ Len(responses) = 2
             /\ httpRes.sent /\ httpRes.status = 200 /\ httpRes.error = ""
             /\ httpRes.sessionId = YieldedSessionId(responses[1].body)
             /\ OrgCallDegraded(responses[2]) => httpRes.ourOrganizations = ""
             /\ ~OrgCallDegraded(responses[2]) =>
                   httpRes.ourOrganizations = responses[2].body.orgs

\* C9's case: the session came in the answer field and the organizations
\* call failed on the network.
C9_Witness ==
    /\ mode = "auth" /\ pc = "done" /\ Len(responses) = 2
    /\ responses[2].failed
    /\ httpRes.status = 200 /\ httpRes.sessionId = "sid-2"
    /\ httpRes.ourOrganizations = ""

IsDigitString(s) == \A i \in 1..Len(s) : IsDigit(s[i])

\* C10: for a tax id that is a digit string once white space is stripped,
\* length 10 gives the organization variant, length 12 the individual
\* variant, any other length an HttpError of status 400, whatever the other
\* fields hold.
C10_VariantByLength ==
    (mode = "resolve" /\ pc = "done" /\ IsDigitString(StripSpaces(req.client.inn))) =>
        LET digits == StripSpaces(req.client.inn)
        IN /\ Len(digits) = 10 =>
                 /\ ~outcome.thrown
                 /\ built.Kontragent.variant = "SvUL"
                 /\ built.Kontragent.INN = digits
           /\ Len(digits) = 12 =>
                 /\ ~outcome.thrown
                 /\ built.Kontragent.variant = "SvFL"
                 /\ built.Kontragent.INN = digits
           /\ Len(digits) \notin {10, 12} =>
                 /\ outcome.thrown /\ outcome.error.isHttpError
                 /\ outcome.error.statusCode = 400
                 /\ built.Kontragent.variant = "none"

\* C10's case: twelve digits with white space between them and a
\* registration code supplied: still the individual variant.
C10_Witness ==
    /\ mode = "resolve" /\ pc = "done"
    /\ req.client.inn = InnSpaced(12) /\ Truthy(req.client.kpp)
    /\ built.Kontragent.variant = "SvFL"
    /\ built.Kontragent.INN = InnDigits(12)


--------------------------------------------------------------------------
(* C11: the note of the built request.                                     *)

\* The explicit note of the request, trimmed; empty when none was supplied
\* (the field not sent, empty or blank).
ExplicitNote == IF req.note = Absent THEN <<>> ELSE Trim(req.note)

\* The period description the file name of the request yields, or empty.
InferredNote ==
    IF req.file.present /\ req.file.originalname # <<>>
    THEN extractWeekDescription(decodeFilename(req.file.originalname))
    ELSE <<>>

\* C11: once the request is built, its note is the explicit note when one
\* was supplied, else the inferred period description when there is one,
\* else empty; it is one of the three and never a concatenation.
C11_NotePrecedence ==
    attempt = "Validated" =>
       /\ built.Primechanie \in {ExplicitNote, InferredNote, <<>>}
       /\ ExplicitNote # <<>> => built.Primechanie = ExplicitNote
       /\ (ExplicitNote = <<>> /\ InferredNote # <<>>) => built.Primechanie = InferredNote
       /\ (ExplicitNote = <<>> /\ InferredNote = <<>>) => built.Primechanie = <<>>

\* C11's case: an explicit note with blanks around it and a dated file name;
\* the request carries the trimmed note and not the description.
C11_Witness ==
    /\ attempt = "Validated"
    /\ req.note = <<32, 111, 107, 32, 49, 32>>
    /\ InferredNote # <<>>
    /\ built.Primechanie = <<111, 107, 32, 49>>


--------------------------------------------------------------------------
(* C12 and C13: the period description, against the calendar.              *)

\* The decoded file name of the request.
DecodedName == decodeFilename(req.file.originalname)

\* The day, month and year the DD-MM-YYYY pattern of the name shows.
NameHasDate == DateMatch(DecodedName) # 0
NameDay == Number(SubSeq(DecodedName, DateMatch(DecodedName), DateMatch(DecodedName) + 1))
NameMonth == Number(SubSeq(DecodedName, DateMatch(DecodedName) + 3, DateMatch(DecodedName) + 4))
NameYear == Number(SubSeq(DecodedName, DateMatch(DecodedName) + 6, DateMatch(DecodedName) + 9))

\* The Gregorian calendar.
LeapYear(y) == y % 400 = 0 \/ (y % 4 = 0 /\ y % 100 # 0)

DaysInMonth(y, m) ==
    IF m = 2 THEN (IF LeapYear(y) THEN 29 ELSE 28)
    ELSE IF m \in {4, 6, 9, 11} THEN 30 ELSE 31

ValidCalendarDate(y, m, d) == y >= 1 /\ m >= 1 /\ m <= 12 /\ d >= 1 /\ d <= DaysInMonth(y, m)

\* The ordinal day of the year.
RECURSIVE DaysBefore(_, _)
DaysBefore(y, m) == IF m = 1 THEN 0 ELSE DaysBefore(y, m - 1) + DaysInMonth(y, m - 1)

OrdinalDay(y, m, d) == DaysBefore(y, m) + d

\* The weekday of 1 January, Monday = 1 .. Sunday = 7 (Gauss).
NewYearWeekday(y) ==
    LET g == (1 + 5 * ((y - 1) % 4) + 4 * ((y - 1) % 100) + 6 * ((y - 1) % 400)) % 7
    IN IF g = 0 THEN 7 ELSE g

IsoWeekday(y, m, d) == ((NewYearWeekday(y) + OrdinalDay(y, m, d) - 2) % 7) + 1

\* A year has 53 weeks when it starts on a Thursday, or is a leap year
\* and starts on a Wednesday.
WeeksInYear(y) ==
    IF NewYearWeekday(y) = 4 \/ (LeapYear(y) /\ NewYearWeekday(y) = 3) THEN 53 ELSE 52

\* The ISO-8601 week number: weeks start on Monday, week 1 holds the
\* year's first Thursday.
IsoWeek(y, m, d) ==
    LET w == (OrdinalDay(y, m, d) - IsoWeekday(y, m, d) + 10) \div 7
    IN IF w < 1 THEN WeeksInYear(y - 1)
       ELSE IF w > WeeksInYear(y) THEN 1
       ELSE w

\* The request was built without an explicit note, so that its note is
\* the period description (or empty).
NoteIsDescription == attempt = "Validated" /\ ExplicitNote = <<>>

\* The number a period description shows between its fixed texts, or -1.
EmbeddedWeek(description) ==
    LET from == Len(WeekLabelPrefix) + 1
        to == Len(description) - Len(WeekLabelSuffix)
        shown == SubSeq(description, from, to)
    IN IF to >= from /\ AllDigits(shown)
            /\ SubSeq(description, 1, from - 1) = WeekLabelPrefix
            /\ SubSeq(description, to + 1, Len(description)) = WeekLabelSuffix
       THEN Number(shown) ELSE 0 - 1

\* C12 as stated: a name without DD-MM-YYYY pattern, or whose day, month
\* and year are no valid calendar date, yields no period description and
\* no error; a description is produced for a valid calendar date only.
C12_InvalidDateUnset ==
    /\ attempt # "Failed"
    /\ NoteIsDescription =>
          (built.Primechanie # <<>> <=>
              (NameHasDate /\ ValidCalendarDate(NameYear, NameMonth, NameDay)))

\* C13 as stated: for a name with a valid calendar date the week number
\* in the period description is the ISO-8601 week number of that date.
C13_IsoWeekOfValidDate ==
    (NoteIsDescription /\ NameHasDate /\ ValidCalendarDate(NameYear, NameMonth, NameDay))
    => EmbeddedWeek(built.Primechanie) = IsoWeek(NameYear, NameMonth, NameDay)

\* The same for the years from 101 on, where Date.UTC takes the year as
\* written.
IsoWeekFromYear101 ==
    (NoteIsDescription /\ NameHasDate /\ ValidCalendarDate(NameYear, NameMonth, NameDay)
       /\ NameYear >= 101)
    => EmbeddedWeek(built.Primechanie) = IsoWeek(NameYear, NameMonth, NameDay)

\* A name without pattern never yields a description.
NoPatternNoDescription ==
    (NoteIsDescription /\ ~NameHasDate) => built.Primechanie = <<>>

--------------------------------------------------------------------------
(* C14: the status of the answer of POST /api/upload.                      *)

\* The answer to the one request of the upload, when there is one.
UploadAnswered == mode = "upload" /\ pc = "done" /\ Len(responses) = 1

\* C14: POST /api/upload answers a validation failure with 400, a
\* non-success response of the remote service with the status of that
\* response, a failure of the transport with 500, each with an error; and
\* a success response with the outcome and no error.
C14_StatusByFailureClass ==
    (mode = "upload" /\ pc = "done") =>
       /\ httpRes.sent
       /\ ~PreconditionsHold(callParams) =>
             /\ httpRes.status = 400 /\ httpRes.error # ""
             /\ responses = <<>>
       /\ PreconditionsHold(callParams) => Len(responses) = 1
       /\ (UploadAnswered /\ responses[1].failed) =>
             httpRes.status = 500 /\ httpRes.error # ""
       /\ (UploadAnswered /\ ~responses[1].failed /\ ~Ok(responses[1].status)) =>
             httpRes.status = responses[1].status /\ httpRes.error # ""
       /\ (UploadAnswered /\ ~responses[1].failed /\ Ok(responses[1].status)) =>
             /\ httpRes.status = 200 /\ httpRes.error = ""
             /\ httpRes.upload.status = responses[1].status
             /\ httpRes.upload.rawBody = responses[1].body.text

\* C14's case: the remote service answered 502 and POST /api/upload
\* answered 502 with the message of the remote error.
C14_Witness ==
    /\ UploadAnswered
    /\ responses[1] = Answer(Response(502, BodyError), "submit")
    /\ httpRes.status = 502 /\ httpRes.error = "denied"

--------------------------------------------------------------------------
(* C15: a response whose body is not JSON.                                 *)

\* The attempt got a response whose body JSON.parse rejects.
MalformedAnswer ==
    /\ pc \in {"settled", "done"} /\ Len(attemptLog) = 4
    /\ ~responses[Len(responses)].failed
    /\ ~responses[Len(responses)].body.valid

\* C15 as stated: whenever the body of the response is not JSON, the raw
\* text reaches the caller of performUpload, and with a success status the
\* attempt does not fail.
C15_MalformedResponsePreserved ==
    MalformedAnswer =>
       /\ Ok(responses[Len(responses)].status) => ~outcome.thrown
       /\ \/ ~outcome.thrown /\ outcome.result.rawBody = responses[Len(responses)].body.text
          \/ outcome.thrown /\ outcome.error.message = responses[Len(responses)].body.text

\* The part that holds: with a success status the raw text is returned
\* and the attempt succeeds.
MalformedSuccessIsSoft ==
    (MalformedAnswer /\ Ok(responses[Len(responses)].status)) =>
       /\ ~outcome.thrown /\ attempt = "Succeeded"
       /\ outcome.result.rawBody = responses[Len(responses)].body.text
       /\ ~outcome.result.jsonParsed /\ outcome.result.documentId = ""

--------------------------------------------------------------------------
(* C16: the date of the built request.                                     *)

\* The text has the form YYYY-MM-DD: digits and two dashes.
IsIsoDateForm(t) ==
    /\ Len(t) = 10
    /\ t[5] = 45 /\ t[8] = 45
    /\ \A i \in {1, 2, 3, 4, 6, 7, 9, 10} : IsDigit(t[i])

\* DD.MM.YYYY made of the year, month and day of a YYYY-MM-DD text.
DottedDate(t) == SubSeq(t, 9, 10) \o <<46>> \o SubSeq(t, 6, 7) \o <<46>> \o SubSeq(t, 1, 4)

\* The way back: YYYY-MM-DD made of a DD.MM.YYYY text.
DashedDate(t) == SubSeq(t, 7, 10) \o <<45>> \o SubSeq(t, 4, 5) \o <<45>> \o SubSeq(t, 1, 2)

\* C16: a supplied date of the form YYYY-MM-DD is carried by the built
\* request as DD.MM.YYYY, and turning that back into YYYY-MM-DD gives the
\* supplied date.
C16_DateRoundTrip ==
    (attempt = "Validated" /\ IsIsoDateForm(req.date)) =>
       /\ built.Data = DottedDate(req.date)
       /\ Len(built.Data) = 10 /\ built.Data[3] = 46 /\ built.Data[6] = 46
       /\ DashedDate(built.Data) = req.date

\* C16's case: the supplied date 1999-12-31 went out as 31.12.1999.
C16_Witness ==
    /\ attempt = "Validated"
    /\ req.date = <<49, 57, 57, 57, 45, 49, 50, 45, 51, 49>>
    /\ built.Data = <<51, 49, 46, 49, 50, 46, 49, 57, 57, 57>>

--------------------------------------------------------------------------
(* C17: no retries, one file after the other.                              *)

\* The submission requests issued so far.
SubmitCalls == {k \in DOMAIN remoteCalls : remoteCalls[k].kind = "submit"}

\* The step issues a submission request.
IssuesSubmit == Len(remoteCalls') = Len(remoteCalls) + 1
                  /\ remoteCalls'[Len(remoteCalls')].kind = "submit"

\* C17: every submission attempt issues at most one request and a failed
\* attempt issues no further one; a batch issues at most one request per
\* file, in the order of the files, and the request of a file is issued
\* only when the outcome of every earlier file is recorded and every
\* earlier request is answered.
C17_NoRetriesSequential ==
    /\ [](mode \in {"batch", "upload"} =>
            /\ \A i \in 0..Len(req.files) :
                  Cardinality({k \in SubmitCalls : remoteCalls[k].forFile = i}) <= 1
            /\ Cardinality(SubmitCalls) <= (IF mode = "batch" THEN Len(req.files) ELSE 1)
            /\ \A k, l \in SubmitCalls :
                  k < l => remoteCalls[k].forFile < remoteCalls[l].forFile
            /\ Len(responses) <= Len(remoteCalls)
            /\ Len(remoteCalls) <= Len(responses) + 1)
    /\ [][(mode \in {"batch", "upload"} /\ IssuesSubmit) =>
            /\ attempt = "Validated" /\ Len(responses) = Len(remoteCalls)
            /\ mode = "batch" => Len(results) = remoteCalls'[Len(remoteCalls')].forFile - 1]_vars
    /\ [][(mode \in {"batch", "upload"} /\ attempt = "Failed" /\ idx' = idx)
            => remoteCalls' = remoteCalls]_vars

\* C17's case: a batch of three files whose first request failed and whose
\* second succeeded: two requests, one per file, none repeated, and the
\* third file not yet started.
C17_Witness ==
    /\ mode = "batch" /\ Len(req.files) = 3
    /\ Len(results) = 2 /\ ~results[1].ok /\ results[2].ok
    /\ Len(remoteCalls) = 2
    /\ remoteCalls[1].forFile = 1 /\ remoteCalls[2].forFile = 2
    /\ responses[1].status = 500

--------------------------------------------------------------------------
(* C18: a failed authentication of the SabyClient.                         *)

\* The step delivers a failed authentication: a non-success response or a
\* failure of the transport.
AuthFails ==
    /\ Len(responses') = Len(responses) + 1
    /\ responses'[Len(responses')].to = "client-auth"
    /\ \/ responses'[Len(responses')].failed
       \/ ~Ok(responses'[Len(responses')].status)

\* The step starts a call of authenticate or uploadDraftDocument.
CallStarts(c) == callers[c].pc = "idle" /\ callers'[c].pc # "idle"

\* C18: a failed authentication stores no token, and the call that
\* awaited it throws without a submission request; in sequential use the
\* token is unset while an authentication is awaited, hence after its
\* failure; and a call that starts without token sends a fresh
\* authentication request.
C18_FailedAuthNotCached ==
    /\ [][AuthFails =>
            /\ token' = token
            /\ remoteCalls' = remoteCalls
            /\ \E c \in Callers :
                  /\ callers[c].pc = "authWait"
                  /\ callers'[c].pc = "idle" /\ callers'[c].last.thrown
                  /\ \A o \in Callers \ {c} : callers'[o] = callers[o]]_vars
    /\ []((req.sequential /\ \E c \in Callers : callers[c].pc = "authWait") => token = "")
    /\ [][\A c \in Callers :
            (CallStarts(c) /\ token = "") =>
               /\ callers'[c].pc = "authWait"
               /\ remoteCalls' = Append(remoteCalls, Call("client-auth", "", idx))]_vars

\* C18's case: in sequential use an uploadDraftDocument whose
\* authentication was answered 401 threw without a submission request, and
\* the next call sent a second authentication request.
C18_Witness ==
    /\ mode = "clients" /\ req.sequential
    /\ Len(responses) = 1 /\ responses[1].status = 401
    /\ Len(remoteCalls) = 2
    /\ remoteCalls[1].kind = "client-auth" /\ remoteCalls[2].kind = "client-auth"
    /\ token = ""
    /\ \E c \in Callers : callers[c].last = CallThrow(MsgAuthFailed(401))

--------------------------------------------------------------------------
(* C19: the session header of the submission requests.                     *)

\* C19: every submission request carries a non-empty session id in its
\* session header; a batch without session id issues no remote call,
\* records each file that has a labelled tax id as failed with the
\* session-id-required error whatever else is wrong with it, each other
\* file as failed for its missing tax id, and answers with the full list.
C19_SessionHeaderNeverEmpty ==
    /\ \A k \in DOMAIN remoteCalls :
          remoteCalls[k].kind = "submit" => remoteCalls[k].session # ""
    /\ (mode = "batch" /\ req.sessionId = "") =>
          /\ remoteCalls = <<>>
          /\ \A i \in DOMAIN results :
                results[i] = ResultEntry(req.files[i].originalname, FALSE, "",
                                         IF Unlabeled(i) THEN MsgInnNotFound
                                         ELSE MsgSessionRequired)
          /\ (pc = "done" /\ Len(req.files) > 0) =>
                /\ httpRes.status = 200
                /\ httpRes.total = Len(req.files)
                /\ Len(httpRes.results) = Len(req.files)
                /\ httpRes.results = results

\* C19's case: a batch without session id and without own tax id, of a file
\* that lacks the registration code, a file without tax id and a complete
\* file: three entries, the session error for the first and the third, no
\* remote call.
C19_Witness ==
    /\ mode = "batch" /\ pc = "done" /\ req.sessionId = ""
    /\ req.our = NoInput
    /\ Len(req.files) = 3
    /\ req.files[1].originalname = NameOrgNoKpp
    /\ req.files[2].originalname = NameUnlabeled
    /\ req.files[3].originalname = NameOrgKpp
    /\ Len(httpRes.results) = 3
    /\ httpRes.results[1].error = MsgSessionRequired
    /\ httpRes.results[2].error = MsgInnNotFound
    /\ httpRes.results[3].error = MsgSessionRequired
    /\ remoteCalls = <<>>
====
